---- MODULE Spec2Model ----
(***************************************************************************)
(* Session authentication middleware of starlite-sessions.                 *)
(*                                                                         *)
(* MiddlewareWrapper lazily assembles the stack                            *)
(*   SessionMiddleware -> ExceptionHandlerMiddleware ->                    *)
(*   SessionAuthMiddleware -> next ASGI handler                            *)
(* and routes every request through it.  A request is modelled as a        *)
(* coroutine that walks down the stack it was handed (one step per stage), *)
(* awaits the user-retrieval callback, runs the route handler and then     *)
(* returns up the stack to the client.  Requests interleave between steps. *)
(***************************************************************************)
EXTENDS Integers, Sequences, FiniteSets, TLC

\* ------------------------------------------------------------------ bounds
\* the connections of the client in Spec: each carries one request at a time,
\* any number of them one after another
Connections == {1, 2}
\* number of requests the client issues, one after another, in SeqSpec
MaxSeqRequests == 5

\* ------------------------------------------------------ HTTP status codes
HTTP_200_OK == 200
HTTP_201_CREATED == 201
HTTP_204_NO_CONTENT == 204
HTTP_401_UNAUTHORIZED == 401
HTTP_500_INTERNAL_SERVER_ERROR == 500
\* status returned by a handler the hosting application registered itself
CUSTOM_HANDLER_STATUS == 403

\* ------------------------------------------------------------------ values
\* scope["session"]: not in the scope, None, the Empty sentinel, an empty
\* dict, or a dict carrying a user id
Unset == "unset"
None == "None"
Empty == "Empty"
EmptyDict == "{}"
PopulatedSessions == {"id_a", "id_b"}

\* what the session store hands over when the request carries no session data
NoDataSessions == {None, Empty, EmptyDict}

\* results of the retrieve_user_handler callback; Raise is the callback
\* ending with an exception instead of a value
FalseUser == "False"
Users == {"user_a", "user_b"}
Raise == "Raise"
ResolverResults == {None, FalseUser, Raise} \cup Users

\* Python truthiness of a session or user value.  Empty is a class object
\* and therefore truthy.
Truthy(v) == v \notin {None, EmptyDict, FalseUser, Unset}

\* stages of the stack, and the ASGI handler the wrapper was constructed with
SessionMiddleware == "SessionMiddleware"
ExceptionHandlerMiddleware == "ExceptionHandlerMiddleware"
SessionAuthMiddleware == "SessionAuthMiddleware"
RouteHandler == "route_handler"
NextApp == <<RouteHandler>>

NotAuthorizedException == "NotAuthorizedException"
InternalException == "Exception"
NoException == "none"

NO_SESSION_DATA == "no session data found"
NO_USER == "no user correlating to session found"

\* ------------------------------------------------------------------- state
VARIABLES
    has_wrapped_middleware, \* MiddlewareWrapper.has_wrapped_middleware
    app,                    \* MiddlewareWrapper.app: the stack reference
    assemblies,             \* number of completed assemblies of the stack
    exclude,                \* SessionAuth.exclude: the excluded paths
    exception_handlers,     \* Starlite.exception_handlers of the hosting app
    retrieve_user_handler,  \* SessionAuth.retrieve_user_handler
    cookie,                 \* the session token the client holds
    req,                    \* the requests issued so far, in order of issue
    running                 \* the request the event loop is running, or 0

vars == <<has_wrapped_middleware, app, assemblies, exclude, exception_handlers,
          retrieve_user_handler, cookie, req, running>>

config == <<exclude, exception_handlers, retrieve_user_handler>>
wrapper == <<has_wrapped_middleware, app, assemblies>>

\* ---------------------------------------------------------- configuration
\* the resolver of the test module: the user whose id the session carries
TestRetrieveUserHandler ==
    [s \in PopulatedSessions |-> IF s = "id_a" THEN {"user_a"} ELSE {None}]

\* a resolver about which nothing is known: any result on any call
AnyRetrieveUserHandler == [s \in PopulatedSessions |-> ResolverResults]

\* user_instance.dict(): the data a login posts for a user
UserDict(u) == IF u = "user_a" THEN "id_a" ELSE IF u = "user_b" THEN "id_b" ELSE None

\* Starlite.exception_handlers: None, or a mapping with a handler of the
\* application's own for NotAuthorizedException
NoHandlers == [registered |-> FALSE, handlers |-> {}]
CustomHandlers == [registered |-> TRUE, handlers |-> {NotAuthorizedException}]
\* a mapping with a handler of the application's own for any other exception
FaultHandlers == [registered |-> TRUE, handlers |-> {InternalException}]

\* the requests a client can issue: the three routes of the test module
Kinds ==
    {[method |-> "POST", path |-> "login", data |-> d] : d \in PopulatedSessions}
    \cup {[method |-> "GET", path |-> "user", data |-> None],
          [method |-> "DELETE", path |-> "user", data |-> None]}

NoCookie == "none"
ClearCookie == "clear"

\* A connection that has not carried a request yet.  A request is `early`
\* from its arrival to its entry into the first stage if it arrived before
\* the wrapper had assembled the stack.
Idle ==
    [method |-> "", path |-> "", data |-> None,
     cookieIn |-> NoCookie, early |-> FALSE,
     pc |-> "idle", stack |-> <<>>, pos |-> 0,
     session |-> Unset, user |-> Unset, auth |-> Unset,
     exc |-> NoException, detail |-> "",
     outcome |-> "none", resolverArg |-> Unset, resolverResult |-> Unset,
     status |-> 0, body |-> None, setCookie |-> NoCookie,
     trace |-> <<>>]

NewRequest(k, c) ==
    [method |-> k.method, path |-> k.path, data |-> k.data,
     cookieIn |-> c, early |-> ~has_wrapped_middleware,
     pc |-> "call", stack |-> <<>>, pos |-> 0,
     session |-> Unset, user |-> Unset, auth |-> Unset,
     exc |-> NoException, detail |-> "",
     outcome |-> "none", resolverArg |-> Unset, resolverResult |-> Unset,
     status |-> 0, body |-> None, setCookie |-> NoCookie,
     trace |-> <<>>]

Init ==
    /\ has_wrapped_middleware = FALSE
    /\ app = NextApp
    /\ assemblies = 0
    /\ exclude \in {{}, {"login"}}
    /\ exception_handlers \in {NoHandlers, CustomHandlers, FaultHandlers}
    /\ retrieve_user_handler = AnyRetrieveUserHandler
    /\ cookie = NoCookie
    /\ req = [c \in Connections |-> Idle]
    /\ running = 0

\* an application with the excluded path of the test module, no exception
\* handlers of its own and a callback about which nothing is known
LiveInit ==
    /\ has_wrapped_middleware = FALSE
    /\ app = NextApp
    /\ assemblies = 0
    /\ exclude = {"login"}
    /\ exception_handlers = NoHandlers
    /\ retrieve_user_handler = AnyRetrieveUserHandler
    /\ cookie = NoCookie
    /\ req = [c \in Connections |-> Idle]
    /\ running = 0

\* the fixture of test_authentication
SeqInit ==
    /\ has_wrapped_middleware = FALSE
    /\ app = NextApp
    /\ assemblies = 0
    /\ exclude = {"login"}
    /\ exception_handlers = NoHandlers
    /\ retrieve_user_handler = TestRetrieveUserHandler
    /\ cookie = NoCookie
    /\ req = <<>>
    /\ running = 0

Requests == DOMAIN req
InFlight == {r \in Requests : req[r].pc \notin {"idle", "done"}}
Stage(r) == req[r].stack[req[r].pos]

\* The coroutine of a request runs on the event loop until it awaits something
\* that is not ready: the session store, the callback, the route handler or
\* the transport.  Between two such points no other request runs.
Suspended(rq) ==
    \/ rq.pc \in {"idle", "call", "resolve", "done"}
    \/ rq.pc = "down" /\ rq.stack[rq.pos] \in {SessionMiddleware, RouteHandler}
    \/ rq.pc = "up" /\ rq.pos = 0
    \/ rq.pc = "up" /\ rq.pos >= 1 /\ rq.stack[rq.pos] = SessionMiddleware

Scheduled(r) ==
    /\ r \in Requests
    /\ running \in {0, r}

Yield(r) == running' = IF Suspended(req'[r]) THEN 0 ELSE r
Entering(r, stage) ==
    /\ req[r].pc = "down"
    /\ Stage(r) = stage
Leaving(r, stage) ==
    /\ req[r].pc = "up"
    /\ req[r].pos >= 1
    /\ Stage(r) = stage

\* ------------------------------------------------------------- the client
\* a connection that is free takes the next request, with the client's cookie
Arrive(c, k) ==
    /\ c \in Requests
    /\ c \notin InFlight
    /\ req' = [req EXCEPT ![c] = NewRequest(k, cookie)]
    /\ UNCHANGED <<wrapper, config, cookie, running>>

\* ------------------------------------------------- MiddlewareWrapper.__call__
\* faulty variant: the flag is not consulted
NeedsAssemblyAlways == TRUE

\* line 168: not self.has_wrapped_middleware
NeedsAssembly == ~has_wrapped_middleware

\* faulty variant: ExceptionHandlerMiddleware is left out of the stack
AssembleWithoutTranslator(inner) ==
    <<SessionMiddleware, SessionAuthMiddleware>> \o inner

\* faulty variant: the stack lacks its outermost stage
AssembleHalfBuilt(inner) ==
    <<ExceptionHandlerMiddleware, SessionAuthMiddleware>> \o inner

\* faulty variant: the translator is wrapped around the session store
AssembleTranslatorOutermost(inner) ==
    <<ExceptionHandlerMiddleware, SessionMiddleware, SessionAuthMiddleware>> \o inner

\* lines 170-180: the three stages around the current self.app
Assemble(inner) ==
    <<SessionMiddleware, ExceptionHandlerMiddleware, SessionAuthMiddleware>> \o inner

\* The block from the test of the flag to its assignment holds no await, so
\* it is one step of the event loop; `await self.app(...)` then hands the
\* request to the stack self.app refers to at that moment.
WrapperCall(r) ==
    /\ Scheduled(r)
    /\ req[r].pc = "call"
    /\ IF NeedsAssembly
         THEN /\ app' = Assemble(app)
              /\ has_wrapped_middleware' = TRUE
              /\ assemblies' = assemblies + 1
         ELSE UNCHANGED wrapper
    /\ req' = [req EXCEPT ![r].pc = "down", ![r].stack = app', ![r].pos = 1,
                          ![r].trace = IF NeedsAssembly
                                         THEN Append(@, "assemble") ELSE @]
    /\ Yield(r)
    /\ UNCHANGED <<config, cookie>>

\* faulty variant: the flag is set before the stages are constructed
WrapperCallFailsAfterFlag(r) ==
    /\ Scheduled(r)
    /\ req[r].pc = "call"
    /\ NeedsAssembly
    /\ has_wrapped_middleware' = TRUE
    /\ req' = [req EXCEPT ![r].pc = "up", ![r].exc = InternalException,
                          ![r].stack = <<>>, ![r].pos = 0, ![r].early = FALSE]
    /\ Yield(r)
    /\ UNCHANGED <<app, assemblies, config, cookie>>

\* scope["app"] or one of the three constructors raises: nothing is assigned
\* and the exception leaves __call__
WrapperCallFails(r) ==
    /\ Scheduled(r)
    /\ req[r].pc = "call"
    /\ NeedsAssembly
    /\ req' = [req EXCEPT ![r].pc = "up", ![r].exc = InternalException,
                          ![r].stack = <<>>, ![r].pos = 0, ![r].early = FALSE]
    /\ Yield(r)
    /\ UNCHANGED <<wrapper, config, cookie>>

\* ------------------------------------------------------- SessionMiddleware
\* the mapping the session store decodes from the token of the request
Decode(token) == IF token \in PopulatedSessions THEN {token} ELSE NoDataSessions

\* the token the session store attaches to the response: the encoded mapping,
\* or the clearing token when there is nothing to encode
Encode(session) ==
    IF Truthy(session) /\ session # Empty THEN session ELSE ClearCookie

EnterSession(r) ==
    /\ Scheduled(r)
    /\ Entering(r, SessionMiddleware)
    /\ \E s \in Decode(req[r].cookieIn) :
          req' = [req EXCEPT ![r].session = s,
                             ![r].early = FALSE,
                             ![r].pos = @ + 1,
                             ![r].trace = Append(@, "session_decode")]
    /\ Yield(r)
    /\ UNCHANGED <<wrapper, config, cookie>>

\* the response passes the session store's send wrapper; an exception that
\* nothing below turned into a response passes it as it is
LeaveSession(r) ==
    /\ Scheduled(r)
    /\ Leaving(r, SessionMiddleware)
    /\ req' = IF req[r].exc = NoException
                THEN [req EXCEPT ![r].setCookie = Encode(req[r].session),
                                 ![r].pos = @ - 1,
                                 ![r].trace = Append(@, "session_encode")]
                ELSE [req EXCEPT ![r].pos = @ - 1]
    /\ Yield(r)
    /\ UNCHANGED <<wrapper, config, cookie>>

\* ---------------------------------------------- ExceptionHandlerMiddleware
\* faulty variant: the handlers of the application are not passed on
HandlersIgnored(h) == {}

\* exception_handlers=starlite_app.exception_handlers or {}
HandlersOrEmpty(h) == IF h.registered THEN h.handlers ELSE {}

\* the status of the response an exception is turned into
ExceptionStatus(e, handlers) ==
    IF e \in handlers THEN CUSTOM_HANDLER_STATUS
    ELSE IF e = NotAuthorizedException THEN HTTP_401_UNAUTHORIZED
    ELSE HTTP_500_INTERNAL_SERVER_ERROR

EnterTranslator(r) ==
    /\ Scheduled(r)
    /\ Entering(r, ExceptionHandlerMiddleware)
    /\ req' = [req EXCEPT ![r].pos = @ + 1,
                          ![r].trace = Append(@, "translator")]
    /\ Yield(r)
    /\ UNCHANGED <<wrapper, config, cookie>>

LeaveTranslator(r) ==
    /\ Scheduled(r)
    /\ Leaving(r, ExceptionHandlerMiddleware)
    /\ req' = IF req[r].exc # NoException
                THEN [req EXCEPT
                        ![r].status = ExceptionStatus(req[r].exc,
                                          HandlersOrEmpty(exception_handlers)),
                        ![r].body = req[r].detail,
                        ![r].exc = NoException,
                        ![r].pos = @ - 1,
                        ![r].trace = Append(@, "translate")]
                ELSE [req EXCEPT ![r].pos = @ - 1]
    /\ Yield(r)
    /\ UNCHANGED <<wrapper, config, cookie>>

\* -------------------------------------------------- SessionAuthMiddleware
\* faulty variant: the exclusion patterns are not handed to the base class
ExcludedNever(path) == FALSE

\* super().__init__(app=app, exclude=exclude): the paths the middleware skips
Excluded(path) == path \in exclude

\* faulty variant: the test for the Empty sentinel is dropped
NoSessionDataFalsyOnly(session) == ~Truthy(session)

\* faulty variant: the test for a falsy session is dropped
NoSessionDataEmptyOnly(session) == session = Empty

\* faulty variant: only a session that is missing, None or Empty is rejected
NoSessionDataAbsentOrEmpty(session) == session \in {Unset, None, Empty}

\* line 218: not connection.session or connection.session is Empty
NoSessionData(session) == ~Truthy(session) \/ session = Empty

\* faulty variant: the callback is handed the session of the first login, not the
\* session of the request
ResolverInputOfFirstLogin(rq) ==
    LET logins == {i \in DOMAIN req : req[i].method = "POST"}
    IN  IF logins = {} THEN rq.session
        ELSE req[CHOOSE i \in logins : \A j \in logins : i <= j].data

\* line 223: the argument handed to retrieve_user_handler
ResolverInput(rq) == rq.session

\* faulty variant: the test is narrowed to `user is None`
NoUserOnlyNone(user) == user = None

\* line 225: not user
NoUser(user) == ~Truthy(user)

\* faulty variant: the two keyword arguments are swapped
AuthenticationResultSwapped(user, session) == [user |-> session, auth |-> user]

\* line 229
AuthenticationResult(user, session) == [user |-> user, auth |-> session]

\* faulty variant: the session is replaced by Empty but nothing is raised
RejectWithoutRaise(rq, reason) ==
    [rq EXCEPT !.session = Empty,
               !.detail = reason,
               !.outcome = "Rejected",
               !.pc = "down",
               !.pos = @ + 1,
               !.trace = @ \o <<"session_cleared">>]

\* faulty variant: the exception is raised first, so the assignment of Empty
\* is never reached
RejectRaisesFirst(rq, reason) ==
    [rq EXCEPT !.exc = NotAuthorizedException,
               !.detail = reason,
               !.outcome = "Rejected",
               !.pc = "up",
               !.pos = @ - 1,
               !.trace = @ \o <<"raise">>]

\* lines 220-221 and 226-227: the session is replaced by Empty, then the
\* exception is raised
Reject(rq, reason) ==
    [rq EXCEPT !.session = Empty,
               !.exc = NotAuthorizedException,
               !.detail = reason,
               !.outcome = "Rejected",
               !.pc = "up",
               !.pos = @ - 1,
               !.trace = @ \o <<"session_cleared", "raise">>]

\* authenticate_request up to the await of line 223; an excluded path goes
\* on to the next stage without it
EnterAuth(r) ==
    /\ Scheduled(r)
    /\ Entering(r, SessionAuthMiddleware)
    /\ req' = [req EXCEPT ![r] =
         IF Excluded(@.path)
           THEN [@ EXCEPT !.pos = @ + 1, !.trace = Append(@, "bypass")]
           ELSE LET rq == [@ EXCEPT !.trace = Append(@, "authenticate_request")]
                IN  IF NoSessionData(rq.session)
                      THEN Reject(rq, NO_SESSION_DATA)
                      ELSE [rq EXCEPT !.pc = "resolve",
                                      !.resolverArg = ResolverInput(rq)]]
    /\ Yield(r)
    /\ UNCHANGED <<wrapper, config, cookie>>

\* what a call of the callback can return
CallResolver(arg) ==
    IF arg \in DOMAIN retrieve_user_handler
      THEN retrieve_user_handler[arg]
      ELSE {Raise}

\* faulty variant: an exception of the callback is handled like a missing user
DecideClearsOnFault(rq, user) ==
    IF user = Raise \/ ~Truthy(user)
      THEN [rq EXCEPT !.session = Empty,
                      !.exc = IF user = Raise THEN InternalException
                                              ELSE NotAuthorizedException,
                      !.detail = NO_USER,
                      !.outcome = IF user = Raise THEN @ ELSE "Rejected",
                      !.pc = "up",
                      !.pos = @ - 1,
                      !.trace = @ \o <<"session_cleared", "raise">>]
    ELSE [rq EXCEPT !.user = user,
                    !.auth = rq.session,
                    !.outcome = "Authenticated",
                    !.pc = "down",
                    !.pos = @ + 1]

\* faulty variant: the callback is awaited again until it yields a user (the
\* repeated call is recorded once)
DecideRetries(rq, user) ==
    IF user = Raise \/ ~Truthy(user)
      THEN [rq EXCEPT !.pc = "resolve",
                      !.trace = SubSeq(@, 1, Len(@) - 1)]
    ELSE [rq EXCEPT !.user = user,
                    !.auth = rq.session,
                    !.outcome = "Authenticated",
                    !.pc = "down",
                    !.pos = @ + 1]

\* authenticate_request from the return of the callback (lines 223-229), and
\* the assignment of the result to the scope by the base class
Decide(rq, user) ==
    IF user = Raise
      THEN [rq EXCEPT !.exc = InternalException,
                      !.pc = "up",
                      !.pos = @ - 1,
                      !.trace = Append(@, "raise")]
    ELSE IF NoUser(user)
      THEN Reject(rq, NO_USER)
    ELSE LET res == AuthenticationResult(user, rq.session)
         IN  [rq EXCEPT !.user = res.user,
                        !.auth = res.auth,
                        !.outcome = "Authenticated",
                        !.pc = "down",
                        !.pos = @ + 1]

ResolverReturns(r) ==
    /\ Scheduled(r)
    /\ req[r].pc = "resolve"
    /\ \E user \in CallResolver(req[r].resolverArg) :
          req' = [req EXCEPT ![r] =
                    Decide([@ EXCEPT !.resolverResult = user,
                                     !.trace = Append(@, "retrieve_user")],
                           user)]
    /\ Yield(r)
    /\ UNCHANGED <<wrapper, config, cookie>>

LeaveAuth(r) ==
    /\ Scheduled(r)
    /\ Leaving(r, SessionAuthMiddleware)
    /\ req' = [req EXCEPT ![r].pos = @ - 1]
    /\ Yield(r)
    /\ UNCHANGED <<wrapper, config, cookie>>

\* ------------------------------------------------------ the route handlers
\* login_handler, delete_user_handler and get_user_handler of the test module
Handle(rq) ==
    LET ran == [rq EXCEPT !.pc = "up", !.pos = @ - 1,
                          !.trace = Append(@, "handler")]
    IN  IF rq.method = "POST"
          THEN [ran EXCEPT !.session = rq.data, !.status = HTTP_201_CREATED]
        ELSE IF rq.method = "DELETE"
          THEN [ran EXCEPT !.session = Empty, !.status = HTTP_204_NO_CONTENT]
        ELSE IF rq.user = Unset
          THEN [ran EXCEPT !.exc = InternalException]
        ELSE [ran EXCEPT !.body = rq.user, !.status = HTTP_200_OK]

RunHandler(r) ==
    /\ Scheduled(r)
    /\ Entering(r, RouteHandler)
    /\ req' = [req EXCEPT ![r] = Handle(@)]
    /\ Yield(r)
    /\ UNCHANGED <<wrapper, config, cookie>>

\* a route handler that raises
HandlerFails(r) ==
    /\ Scheduled(r)
    /\ Entering(r, RouteHandler)
    /\ req' = [req EXCEPT ![r].pc = "up", ![r].pos = @ - 1,
                          ![r].exc = InternalException,
                          ![r].trace = Append(@, "handler")]
    /\ Yield(r)
    /\ UNCHANGED <<wrapper, config, cookie>>

\* ---------------------------------------------------------- the transport
\* the client's cookie after a response with the given session header
Received(old, setCookie) ==
    IF setCookie = NoCookie THEN old
    ELSE IF setCookie = ClearCookie THEN NoCookie
    ELSE setCookie

\* the request has left the outermost stage
AtTransport(rq) == rq.pc = "up" /\ rq.pos = 0

\* The response, or the exception nothing turned into one, reaches the client
\* and the scope of the request is discarded: the connection is free again.
Respond(r) ==
    /\ Scheduled(r)
    /\ AtTransport(req[r])
    /\ req' = [req EXCEPT ![r] = Idle]
    /\ cookie' = IF req[r].exc = NoException
                   THEN Received(cookie, req[r].setCookie)
                   ELSE cookie
    /\ Yield(r)
    /\ UNCHANGED <<wrapper, config>>

\* the same, for the client of the test module, which keeps the response
SeqRespond(r) ==
    /\ Scheduled(r)
    /\ AtTransport(req[r])
    /\ req' = [req EXCEPT ![r].pc = "done"]
    /\ cookie' = IF req[r].exc = NoException
                   THEN Received(cookie, req[r].setCookie)
                   ELSE cookie
    /\ Yield(r)
    /\ UNCHANGED <<wrapper, config>>

\* ---------------------------------------------------------- specifications
\* requests arrive at any time and are served concurrently
Next ==
    \/ \E c \in Requests, k \in Kinds : Arrive(c, k)
    \/ \E r \in Requests : WrapperCall(r)
    \/ \E r \in Requests : WrapperCallFails(r)
    \/ \E r \in Requests : EnterSession(r)
    \/ \E r \in Requests : EnterTranslator(r)
    \/ \E r \in Requests : EnterAuth(r)
    \/ \E r \in Requests : ResolverReturns(r)
    \/ \E r \in Requests : RunHandler(r)
    \/ \E r \in Requests : HandlerFails(r)
    \/ \E r \in Requests : LeaveAuth(r)
    \/ \E r \in Requests : LeaveTranslator(r)
    \/ \E r \in Requests : LeaveSession(r)
    \/ \E r \in Requests : Respond(r)

Spec == Init /\ [][Next]_vars

\* The client of the test module waits for a response before it issues the
\* next request; its application and handlers do not raise.
SeqArrive(k) ==
    /\ InFlight = {}
    /\ Len(req) < MaxSeqRequests
    /\ req' = Append(req, NewRequest(k, cookie))
    /\ UNCHANGED <<wrapper, config, cookie, running>>

SeqNext ==
    \/ \E k \in Kinds : SeqArrive(k)
    \/ \E r \in Requests : WrapperCall(r)
    \/ \E r \in Requests : EnterSession(r)
    \/ \E r \in Requests : EnterTranslator(r)
    \/ \E r \in Requests : EnterAuth(r)
    \/ \E r \in Requests : ResolverReturns(r)
    \/ \E r \in Requests : RunHandler(r)
    \/ \E r \in Requests : LeaveAuth(r)
    \/ \E r \in Requests : LeaveTranslator(r)
    \/ \E r \in Requests : LeaveSession(r)
    \/ \E r \in Requests : SeqRespond(r)

SeqSpec == SeqInit /\ [][SeqNext]_vars

\* a step of the coroutine of one request
Step(r) ==
    \/ WrapperCall(r)
    \/ WrapperCallFails(r)
    \/ EnterSession(r)
    \/ EnterTranslator(r)
    \/ EnterAuth(r)
    \/ ResolverReturns(r)
    \/ RunHandler(r)
    \/ HandlerFails(r)
    \/ LeaveAuth(r)
    \/ LeaveTranslator(r)
    \/ LeaveSession(r)
    \/ Respond(r)

\* The session store, the callback, the route handler and the transport
\* complete every call, and the event loop resumes every coroutine that is
\* ready: a request that can take a step again and again does take one.
LiveSpec ==
    LiveInit /\ [][Next]_vars /\ \A r \in Connections : SF_vars(Step(r))

\* ============================================================ properties
Has(rq, event) == \E i \in DOMAIN rq.trace : rq.trace[i] = event

\* the wrapper has handed the request to the stack
Routed(rq) == rq.stack # <<>>

\* the not-authorized response of an application: 401 unless the application
\* registered a handler of its own for NotAuthorizedException
NotAuthorizedStatus ==
    IF exception_handlers.registered
         /\ NotAuthorizedException \in exception_handlers.handlers
      THEN CUSTOM_HANDLER_STATUS
      ELSE HTTP_401_UNAUTHORIZED

\* C1: on a path that is not excluded the route handler runs only for a
\* request authenticate_request authenticated, the request that assembled
\* the stack included; a rejected request never reaches the handler and
\* arrives at the transport as an error response.
C1_HandlerOnlyIfAuthenticated ==
    \A r \in Requests :
        req[r].path \notin exclude =>
            /\ Has(req[r], "handler") => req[r].outcome = "Authenticated"
            /\ req[r].outcome = "Rejected" =>
                /\ ~Has(req[r], "handler")
                /\ ~Entering(r, RouteHandler)
                /\ AtTransport(req[r]) =>
                      /\ req[r].exc = NoException
                      /\ req[r].status >= 400

\* the request that assembled the stack was rejected and answered with an
\* error response
C1_Witness ==
    \E r \in Requests :
        /\ req[r].path \notin exclude
        /\ Has(req[r], "assemble")
        /\ req[r].outcome = "Rejected"
        /\ AtTransport(req[r])
        /\ req[r].status >= 400

\* a request without a session token on a path that is not excluded, once
\* the wrapper has handed it to the stack and authenticate_request has
\* decided: rejected for want of session data, Empty in the scope, and at
\* the transport a response of the given status with the clearing token
NoSessionRejected(rq, status) ==
    (/\ rq.path \notin exclude
     /\ rq.cookieIn = NoCookie
     /\ Routed(rq)
     /\ \/ rq.pc \in {"up", "done"}
        \/ rq.pc = "down" /\ rq.stack[rq.pos] = RouteHandler)
    => /\ rq.outcome = "Rejected"
       /\ rq.detail = NO_SESSION_DATA
       /\ rq.session = Empty
       /\ ~Has(rq, "retrieve_user")
       /\ (rq.pc = "up" /\ rq.pos <= 1) => rq.exc = NoException /\ rq.status = status
       /\ AtTransport(rq) => rq.setCookie = ClearCookie

\* C2 (as stated): a request with no session data is rejected with "no
\* session data found", answered 401, and leaves with the clearing token.
C2_Original == \A r \in Requests : NoSessionRejected(req[r], HTTP_401_UNAUTHORIZED)

\* C2 (amended): the same, the status being 401 unless the hosting
\* application registered its own handler for NotAuthorizedException.
C2_NoSessionRejected == \A r \in Requests : NoSessionRejected(req[r], NotAuthorizedStatus)

C2_Witness ==
    \E r \in Requests :
        /\ req[r].path \notin exclude
        /\ req[r].cookieIn = NoCookie
        /\ AtTransport(req[r])
        /\ req[r].detail = NO_SESSION_DATA
        /\ req[r].status = HTTP_401_UNAUTHORIZED
        /\ req[r].setCookie = ClearCookie

\* a request for whose session the callback returned a falsy value: rejected
\* for want of a user, Empty in the scope, no handler, and at the transport a
\* response of the given status with the clearing token
NoUserRejected(rq, status) ==
    (/\ rq.path \notin exclude
     /\ rq.resolverResult \in {None, FalseUser})
    => /\ rq.outcome = "Rejected"
       /\ rq.detail = NO_USER
       /\ rq.session = Empty
       /\ rq.user = Unset
       /\ ~Has(rq, "handler")
       /\ rq.pc \in {"up", "done"}
       /\ (rq.pc = "up" /\ rq.pos <= 1) => rq.exc = NoException /\ rq.status = status
       /\ AtTransport(rq) => rq.setCookie = ClearCookie

\* C3 (as stated): a falsy result of the callback, None or not, is a
\* rejection with "no user correlating to session found", answered 401, with
\* Empty in the scope and the clearing token on the way out.
C3_Original == \A r \in Requests : NoUserRejected(req[r], HTTP_401_UNAUTHORIZED)

\* C3 (amended): the same, the status being 401 unless the hosting
\* application registered its own handler for NotAuthorizedException.
C3_NoUserRejected == \A r \in Requests : NoUserRejected(req[r], NotAuthorizedStatus)

\* the callback returned False, not None, and the request was rejected
C3_Witness ==
    \E r \in Requests :
        /\ req[r].resolverResult = FalseUser
        /\ AtTransport(req[r])
        /\ req[r].detail = NO_USER
        /\ req[r].setCookie = ClearCookie

\* C4: a truthy result of the callback authenticates the request with
\* user = that result and auth = the session of the request, and the session
\* in the scope is the one the request came with: nothing was cleared.
C4_Authenticated ==
    \A r \in Requests :
        (req[r].path \notin exclude /\ req[r].resolverResult \in Users) =>
            /\ req[r].outcome = "Authenticated"
            /\ req[r].user = req[r].resolverResult
            /\ req[r].auth = req[r].resolverArg
            /\ req[r].resolverArg = req[r].cookieIn
            /\ ~Has(req[r], "session_cleared")
            /\ ~Has(req[r], "handler") => req[r].session = req[r].cookieIn

\* authenticated as user_b and about to enter the route handler
C4_Witness ==
    \E r \in Requests :
        /\ req[r].outcome = "Authenticated"
        /\ req[r].user = "user_b"
        /\ req[r].auth \in PopulatedSessions
        /\ Entering(r, RouteHandler)

\* C5: on an excluded path authenticate_request and the callback are never
\* invoked and the route handler runs without a user, whatever session the
\* request carries.
C5_ExcludedBypass ==
    \A r \in Requests :
        (req[r].path \in exclude /\ Routed(req[r])) =>
            /\ ~Has(req[r], "authenticate_request")
            /\ ~Has(req[r], "retrieve_user")
            /\ req[r].outcome = "none"
            /\ req[r].resolverArg = Unset
            /\ req[r].user = Unset
            /\ req[r].auth = Unset
            /\ req[r].pc \in {"up", "done"} => Has(req[r], "handler")

\* the handler of the excluded path has run for a request that carried a
\* populated session
C5_Witness ==
    \E r \in Requests :
        /\ req[r].path \in exclude
        /\ req[r].cookieIn \in PopulatedSessions
        /\ Has(req[r], "session_decode")
        /\ Has(req[r], "handler")
        /\ req[r].user = Unset

\* ------------------------------------------------ the end-to-end scenario
IsGet(rq) == rq.method = "GET" /\ rq.path = "user"
IsDelete(rq) == rq.method = "DELETE" /\ rq.path = "user"
IsLogin(rq, d) == rq.method = "POST" /\ rq.path = "login" /\ rq.data = d
Success(status) == status \in 200..299

\* identity data the callback resolves to the user it describes
ValidIdentity(d) ==
    \E u \in Users : retrieve_user_handler[d] = {u} /\ UserDict(u) = d

\* the first n requests of the client are those of the scenario, logging in
\* with d, and the n-th has been answered
ScenarioStep(n, d) ==
    /\ Len(req) >= n
    /\ req[n].pc = "done"
    /\ \A i \in 1..n :
          \/ i \in {1, 3, 5} /\ IsGet(req[i])
          \/ i = 2 /\ IsLogin(req[i], d)
          \/ i = 4 /\ IsDelete(req[i])

\* C6: GET, login, GET, DELETE, GET by one client are answered 401, 2xx with
\* a session token, 2xx with the identity of the posted data, a success
\* status with the clearing token, and 401.
C6_EndToEnd ==
    \A d \in PopulatedSessions :
        ValidIdentity(d) =>
            /\ ScenarioStep(1, d) => req[1].status = HTTP_401_UNAUTHORIZED
            /\ ScenarioStep(2, d) =>
                  /\ Success(req[2].status)
                  /\ req[2].setCookie = d
            /\ ScenarioStep(3, d) =>
                  /\ Success(req[3].status)
                  /\ req[3].cookieIn = d
                  /\ UserDict(req[3].body) = d
            /\ ScenarioStep(4, d) =>
                  /\ Success(req[4].status)
                  /\ req[4].setCookie = ClearCookie
            /\ ScenarioStep(5, d) => req[5].status = HTTP_401_UNAUTHORIZED

\* the five requests of the scenario have been answered
C6_Witness ==
    \E d \in PopulatedSessions :
        /\ ValidIdentity(d)
        /\ ScenarioStep(5, d)
        /\ req[3].status = HTTP_200_OK
        /\ req[5].status = HTTP_401_UNAUTHORIZED

\* C7: the identity attached to a request is the callback's result for the
\* session that request carries and the user served is the one that session
\* describes, whatever sessions came before; a session the callback finds no
\* user for is answered 401 without the handler.
C7_SessionIsolation ==
    \A r \in Requests :
        (req[r].path \notin exclude /\ req[r].pc = "done") =>
            /\ req[r].outcome = "Authenticated" =>
                  /\ req[r].resolverArg = req[r].cookieIn
                  /\ req[r].user = req[r].resolverResult
                  /\ req[r].user \in retrieve_user_handler[req[r].cookieIn]
                  /\ IsGet(req[r]) =>
                        /\ req[r].body = req[r].user
                        /\ UserDict(req[r].body) = req[r].cookieIn
            /\ (/\ req[r].cookieIn \in PopulatedSessions
                /\ \A u \in retrieve_user_handler[req[r].cookieIn] : ~Truthy(u)) =>
                  /\ req[r].outcome = "Rejected"
                  /\ req[r].status = HTTP_401_UNAUTHORIZED
                  /\ ~Has(req[r], "handler")

\* the first identity was served its resource; after a login as a second
\* identity the same resource is refused
C7_Witness ==
    \E i, j, k \in Requests :
        /\ i < j /\ j < k
        /\ IsGet(req[i]) /\ req[i].pc = "done"
        /\ req[i].status = HTTP_200_OK /\ req[i].body = "user_a"
        /\ IsLogin(req[j], "id_b") /\ req[j].pc = "done"
        /\ IsGet(req[k]) /\ req[k].pc = "done"
        /\ req[k].cookieIn = "id_b"
        /\ req[k].status = HTTP_401_UNAUTHORIZED

\* ---------------------------------------------------------- the translator
\* a rejection is a NotAuthorizedException while it is inside the
\* translator, and a response of the given status from there on: at the
\* session store and at the transport there is no exception left
RejectionTranslated(rq, status) ==
    rq.outcome = "Rejected" =>
        /\ rq.pc \in {"up", "done"}
        /\ rq.exc \in {NotAuthorizedException, NoException}
        /\ rq.exc = NotAuthorizedException =>
              /\ ~Has(rq, "translate")
              /\ \E i \in 1..rq.pos : rq.stack[i] = ExceptionHandlerMiddleware
        /\ rq.exc = NoException =>
              /\ Has(rq, "translate")
              /\ rq.status = status
        /\ (\/ AtTransport(rq)
            \/ rq.pc = "up" /\ rq.pos >= 1 /\ rq.stack[rq.pos] = SessionMiddleware) =>
              rq.exc = NoException

\* C8 (as stated): a rejection never passes the translator as an exception;
\* it is always turned into a 401 response.
C8_Original == \A r \in Requests : RejectionTranslated(req[r], HTTP_401_UNAUTHORIZED)

\* C8 (amended): the same, the status being 401 unless the hosting
\* application registered its own handler for NotAuthorizedException.
C8_RejectionTranslated == \A r \in Requests : RejectionTranslated(req[r], NotAuthorizedStatus)

\* one rejection of each branch has reached the transport as a response
C8_Witness ==
    \E r1, r2 \in Requests :
        /\ AtTransport(req[r1]) /\ AtTransport(req[r2])
        /\ req[r1].outcome = "Rejected" /\ req[r1].detail = NO_SESSION_DATA
        /\ req[r2].outcome = "Rejected" /\ req[r2].detail = NO_USER
        /\ req[r1].exc = NoException /\ req[r2].exc = NoException
        /\ req[r1].status = HTTP_401_UNAUTHORIZED
        /\ req[r2].status = HTTP_401_UNAUTHORIZED

\* -------------------------------------------------------------- assembly
ThreeStageStack ==
    <<SessionMiddleware, ExceptionHandlerMiddleware, SessionAuthMiddleware,
      RouteHandler>>

\* C9: the stack is assembled at most once; the flag tells whether it has
\* been; once the flag is set, flag and stack reference never change again.
C9_AssembledOnce ==
    /\ [](/\ assemblies <= 1
          /\ has_wrapped_middleware <=> assemblies = 1
          /\ app = IF has_wrapped_middleware THEN ThreeStageStack ELSE NextApp)
    /\ [][has_wrapped_middleware =>
            /\ has_wrapped_middleware'
            /\ app' = app
            /\ assemblies' = assemblies]_vars

\* a request that did not assemble the stack has been served through it
C9_Witness ==
    /\ has_wrapped_middleware
    /\ assemblies = 1
    /\ \E r \in Requests :
          /\ Routed(req[r])
          /\ ~Has(req[r], "assemble")
          /\ Has(req[r], "handler")

\* C10: whatever the interleaving of the first requests, every request is
\* routed through the same stack, and that stack is the three stages around
\* the original handler: never part of it, never a stack around a stack.
C10_OneStack ==
    /\ app \in {NextApp, ThreeStageStack}
    /\ has_wrapped_middleware <=> app = ThreeStageStack
    /\ \A r \in Requests : Routed(req[r]) => req[r].stack = ThreeStageStack
    /\ \A r \in Requests : req[r].pc \notin {"idle", "call"} /\ req[r].exc = NoException
                              => Routed(req[r])
    /\ Cardinality({r \in Requests : Has(req[r], "assemble")}) <= 1

\* two requests arrived before the stack was assembled; one assembled it and
\* the other has been handed to the same stack
C10_Witness ==
    \E r1, r2 \in Requests :
        /\ r1 # r2
        /\ Has(req[r1], "assemble")
        /\ req[r1].pc # "idle"
        /\ req[r2].early
        /\ req[r2].pc = "down"
        /\ req[r2].stack = req[r1].stack
        /\ req[r2].stack = ThreeStageStack

\* ------------------------------------------------------ order of the stages
\* event a occurs in the trace before every occurrence of event b
Precedes(rq, a, b) ==
    \A j \in DOMAIN rq.trace :
        rq.trace[j] = b => \E i \in 1..(j - 1) : rq.trace[i] = a

\* C11: the stack is session store, translator, authentication, handler, in
\* that order: a request on a path that is not excluded enters the stages in
\* the order session decode, translator, authenticate_request, route handler,
\* and the session is encoded only after the request has left the translator,
\* any exception having been turned into a response by then.
C11_StageOrder ==
    \A r \in Requests :
        (req[r].path \notin exclude /\ Routed(req[r])) =>
            /\ req[r].stack[1] = SessionMiddleware
            /\ req[r].stack[2] = ExceptionHandlerMiddleware
            /\ req[r].stack[3] = SessionAuthMiddleware
            /\ req[r].stack[4] = RouteHandler
            /\ Precedes(req[r], "session_decode", "translator")
            /\ Precedes(req[r], "translator", "authenticate_request")
            /\ Precedes(req[r], "authenticate_request", "handler")
            /\ Precedes(req[r], "translator", "session_encode")
            /\ Has(req[r], "raise") => Precedes(req[r], "translate", "session_encode")
            /\ Has(req[r], "session_encode") =>
                  /\ req[r].pc \in {"up", "done"}
                  /\ req[r].pos = 0
                  /\ req[r].exc = NoException
                  /\ req[r].status # 0

\* one request has passed all four stages and its response has been encoded;
\* another was rejected, translated and encoded
C11_Witness ==
    \E r1, r2 \in Requests :
        /\ req[r1].path \notin exclude /\ req[r2].path \notin exclude
        /\ req[r1].trace = <<"session_decode", "translator", "authenticate_request",
                             "retrieve_user", "handler", "session_encode">>
        /\ Has(req[r2], "translate")
        /\ Has(req[r2], "session_encode")

\* ------------------------------------------------------------ idempotence
\* how often an event occurs in the trace of a request
Count(rq, event) == Cardinality({i \in DOMAIN rq.trace : rq.trace[i] = event})

\* how often a stage occurs in a stack
Occurrences(stack, stage) == Cardinality({i \in DOMAIN stack : stack[i] = stage})

\* C12: however many times the wrapper has been called, every request is
\* routed through the stack the first call left in self.app, that stack holds
\* each of the three stages exactly once, and a request invokes
\* authenticate_request, the callback and the route handler at most once.
C12_Idempotent ==
    \A r \in Requests :
        Routed(req[r]) =>
            /\ has_wrapped_middleware
            /\ req[r].stack = app
            /\ Occurrences(req[r].stack, SessionMiddleware) = 1
            /\ Occurrences(req[r].stack, ExceptionHandlerMiddleware) = 1
            /\ Occurrences(req[r].stack, SessionAuthMiddleware) = 1
            /\ Occurrences(req[r].stack, RouteHandler) = 1
            /\ Count(req[r], "session_decode") <= 1
            /\ Count(req[r], "authenticate_request") <= 1
            /\ Count(req[r], "retrieve_user") <= 1
            /\ Count(req[r], "handler") <= 1

\* after the call that assembled the stack two later calls, neither of which
\* assembled anything, have each run authenticate_request and the handler once
C12_Witness ==
    \E r1, r2 \in Requests :
        /\ r1 # r2
        /\ assemblies = 1
        /\ \A r \in {r1, r2} :
              /\ ~req[r].early
              /\ ~Has(req[r], "assemble")
              /\ Count(req[r], "authenticate_request") = 1
              /\ Count(req[r], "handler") = 1
              /\ req[r].stack = app

\* --------------------------------------------------- clearing on rejection
\* C13: in either rejection branch Empty is assigned to the session in the
\* scope before the exception is raised, so before the translator turns the
\* exception into a response and before the session store encodes the
\* outgoing token, which therefore is the clearing token.
C13_ClearedBeforeRaise ==
    \A r \in Requests :
        req[r].outcome = "Rejected" =>
            /\ req[r].detail \in {NO_SESSION_DATA, NO_USER}
            /\ Count(req[r], "session_cleared") = 1
            /\ Count(req[r], "raise") = 1
            /\ Precedes(req[r], "session_cleared", "raise")
            /\ Precedes(req[r], "raise", "translate")
            /\ Precedes(req[r], "translate", "session_encode")
            /\ req[r].session = Empty
            /\ Has(req[r], "session_encode") => req[r].setCookie = ClearCookie

\* a request that came with a session was rejected for want of a user, the
\* application's own handler answered it, and the clearing token is attached
C13_Witness ==
    \E r \in Requests :
        /\ req[r].outcome = "Rejected"
        /\ req[r].detail = NO_USER
        /\ req[r].cookieIn \in PopulatedSessions
        /\ req[r].status = CUSTOM_HANDLER_STATUS
        /\ Has(req[r], "session_encode")
        /\ req[r].setCookie = ClearCookie

\* ------------------------------------------------- the test of the session
\* The step of authenticate_request from its entry to the await of the
\* callback: for the sessions in `rejected` it ends in the rejection "no
\* session data found" without a call of the callback; for every other
\* session it leaves the session as it is and awaits the callback, which is
\* handed that session.
SessionTest(r, rejected) ==
    (/\ Entering(r, SessionAuthMiddleware)
     /\ req[r].path \notin exclude
     /\ req'[r] # req[r])
    => IF req[r].session \in rejected
         THEN /\ req'[r].outcome = "Rejected"
              /\ req'[r].detail = NO_SESSION_DATA
              /\ req'[r].session = Empty
              /\ req'[r].resolverArg = Unset
              /\ req'[r].pc = "up"
         ELSE /\ req'[r].outcome = "none"
              /\ req'[r].session = req[r].session
              /\ req'[r].resolverArg = req[r].session
              /\ req'[r].pc = "resolve"

\* C14 (as stated): the rejection "no session data found" happens exactly
\* when the session is absent or is Empty; every other session, an empty
\* mapping included, is handed to the callback.
C14_Original ==
    [][\A r \in Requests : SessionTest(r, {Unset, None, Empty})]_vars

\* C14 (amended): the rejection "no session data found" happens exactly when
\* the session is falsy (absent, None or an empty mapping) or is Empty; every
\* other session is handed to the callback, whose result is awaited.
C14_SessionTest ==
    [][\A r \in Requests : SessionTest(r, {Unset, None, EmptyDict, Empty})]_vars

\* one request was rejected for want of session data without a call of the
\* callback while another, with a populated session, awaits the callback
C14_Witness ==
    \E r1, r2 \in Requests :
        /\ req[r1].path \notin exclude
        /\ req[r1].outcome = "Rejected"
        /\ req[r1].detail = NO_SESSION_DATA
        /\ req[r1].resolverArg = Unset
        /\ ~Has(req[r1], "retrieve_user")
        /\ req[r2].pc = "resolve"
        /\ req[r2].session \in PopulatedSessions
        /\ req[r2].resolverArg = req[r2].session

\* ------------------------------------------------- context on excluded paths
\* a request on an excluded path that has passed SessionAuthMiddleware went
\* straight on to the route handler, without authenticate_request and
\* without user and auth in its scope
BypassedWithoutUser(rq) ==
    /\ ~Has(rq, "authenticate_request")
    /\ ~Has(rq, "retrieve_user")
    /\ rq.user = Unset
    /\ rq.auth = Unset
    /\ rq.pc = "down" => rq.stack[rq.pos] = RouteHandler

\* C15 (as stated): on an excluded path the request reaches the route
\* handler with neither session data nor a user attached.
C15_Original ==
    \A r \in Requests :
        (req[r].path \in exclude /\ Has(req[r], "bypass")) =>
            /\ BypassedWithoutUser(req[r])
            /\ Entering(r, RouteHandler) => req[r].session \notin PopulatedSessions

\* C15 (amended): on an excluded path the request reaches the route handler
\* without a user attached, but with the session the session store decoded
\* from its token: the session store is the outermost stage and has run.
C15_ExcludedContext ==
    \A r \in Requests :
        (req[r].path \in exclude /\ Has(req[r], "bypass")) =>
            /\ BypassedWithoutUser(req[r])
            /\ Has(req[r], "session_decode")
            /\ req[r].session # Unset
            /\ Entering(r, RouteHandler) =>
                  IF req[r].cookieIn \in PopulatedSessions
                    THEN req[r].session = req[r].cookieIn
                    ELSE req[r].session \in NoDataSessions

\* a request with a session token is about to enter the handler of the
\* excluded path, its session in the scope
C15_Witness ==
    \E r \in Requests :
        /\ req[r].path \in exclude
        /\ Has(req[r], "bypass")
        /\ Entering(r, RouteHandler)
        /\ req[r].session \in PopulatedSessions
        /\ req[r].user = Unset

\* ------------------------------------------------------- faults downstream
\* the response to an exception that is no rejection: that of the handler
\* the application registered for it, the server error otherwise
FaultStatus ==
    IF exception_handlers.registered
         /\ InternalException \in exception_handlers.handlers
      THEN CUSTOM_HANDLER_STATUS
      ELSE HTTP_500_INTERNAL_SERVER_ERROR

\* the callback or the route handler of the request raised
FaultDownstream(rq) ==
    /\ Routed(rq)
    /\ rq.outcome # "Rejected"
    /\ \/ rq.resolverResult = Raise
       \/ rq.exc = InternalException
       \/ Has(rq, "translate")

\* C16: an exception of the callback or of the route handler that is no
\* rejection is an exception only inside the translator; the translator
\* turns it into the error response the application's exception handlers
\* determine (the server error when there are none), and it is a response,
\* never an exception, that reaches the session store and the transport.
C16_FaultTranslated ==
    \A r \in Requests :
        FaultDownstream(req[r]) =>
            /\ req[r].pc \in {"up", "done"}
            /\ req[r].exc = InternalException =>
                  /\ ~Has(req[r], "translate")
                  /\ req[r].pos >= 2
                  /\ \E i \in 1..req[r].pos :
                        req[r].stack[i] = ExceptionHandlerMiddleware
            /\ req[r].pos <= 1 =>
                  /\ req[r].exc = NoException
                  /\ Has(req[r], "translate")
                  /\ req[r].status = FaultStatus

\* a fault of the callback and a fault of the route handler have both reached
\* the transport as the response of the application's own handler
C16_Witness ==
    \E r1, r2 \in Requests :
        /\ exception_handlers = FaultHandlers
        /\ AtTransport(req[r1]) /\ AtTransport(req[r2])
        /\ req[r1].resolverResult = Raise
        /\ req[r2].outcome = "Authenticated" /\ Has(req[r2], "handler")
        /\ \A r \in {r1, r2} :
              /\ FaultDownstream(req[r])
              /\ req[r].exc = NoException
              /\ req[r].status = CUSTOM_HANDLER_STATUS

\* ------------------------------------------------------ request-scoped state
\* what authenticate_request reads and decides for one request
Decision(rq) == <<rq.session, rq.resolverArg, rq.resolverResult, rq.outcome,
                  rq.user, rq.auth>>

\* C17: session, argument of the callback and outcome belong to one request.
\* A step in which one request is rejected, its session replaced by Empty,
\* changes none of them for any other request, whatever the interleaving;
\* and what a request hands to the callback and is authenticated with is its
\* own session, the one of the token it came with.
C17_RequestScoped ==
    /\ [](\A r \in Requests :
            /\ req[r].resolverArg # Unset => req[r].resolverArg = req[r].cookieIn
            /\ req[r].outcome = "Authenticated" =>
                  /\ req[r].auth = req[r].cookieIn
                  /\ req[r].user = req[r].resolverResult)
    /\ [][\A r1, r2 \in Requests :
            (/\ r1 # r2
             /\ req[r1].outcome # "Rejected"
             /\ req'[r1].outcome = "Rejected")
            => /\ req'[r1].session = Empty
               /\ Decision(req'[r2]) = Decision(req[r2])]_vars

\* a request has been rejected, Empty in its scope, while another in flight
\* holds its populated session and has been authenticated with it
C17_Witness ==
    \E r1, r2 \in Requests :
        /\ r1 # r2
        /\ r1 \in InFlight /\ r2 \in InFlight
        /\ req[r1].outcome = "Rejected"
        /\ req[r1].session = Empty
        /\ req[r1].cookieIn \in PopulatedSessions
        /\ req[r2].outcome = "Authenticated"
        /\ req[r2].session = req[r1].cookieIn
        /\ req[r2].auth = req[r2].session
        /\ Entering(r2, RouteHandler)

\* ------------------------------------------------------ fault of the callback
\* C18: when the callback raises for a request with a populated session,
\* the request is neither authenticated nor rejected, the session in its
\* scope stays the one it came with (Empty is not assigned), the route
\* handler does not run, and the token on the response is that session, not
\* the clearing token.
C18_ResolverFault ==
    \A r \in Requests :
        (req[r].resolverResult = Raise /\ req[r].cookieIn \in PopulatedSessions) =>
            /\ req[r].outcome = "none"
            /\ req[r].user = Unset
            /\ req[r].auth = Unset
            /\ req[r].session = req[r].cookieIn
            /\ req[r].session = req[r].resolverArg
            /\ ~Has(req[r], "session_cleared")
            /\ ~Has(req[r], "handler")
            /\ req[r].detail = ""
            /\ Has(req[r], "session_encode") =>
                  /\ req[r].setCookie = req[r].cookieIn
                  /\ req[r].setCookie # ClearCookie

\* the callback raised and the response has left the session store with the
\* session of the request
C18_Witness ==
    \E r \in Requests :
        /\ req[r].resolverResult = Raise
        /\ req[r].cookieIn \in PopulatedSessions
        /\ AtTransport(req[r])
        /\ Has(req[r], "session_encode")
        /\ req[r].status = HTTP_500_INTERNAL_SERVER_ERROR
        /\ req[r].setCookie = req[r].cookieIn

\* ------------------------------------------------------- fault of assembly
\* the call of the wrapper for the request ended in an exception before the
\* request was handed to anything
AssemblyFailed(rq) == rq.pc = "up" /\ ~Routed(rq)

\* C19: a fault during assembly leaves the wrapper as it was:
\* has_wrapped_middleware False and self.app the original handler.  The
\* request ends with the exception and reaches no stage and no handler, and
\* the next call of the wrapper assembles the stack around the original
\* handler.
C19_AssemblyFault ==
    /\ [](/\ ~has_wrapped_middleware => app = NextApp /\ assemblies = 0
          /\ \A r \in Requests :
                AssemblyFailed(req[r]) =>
                    /\ req[r].exc = InternalException
                    /\ req[r].trace = <<>>
                    /\ req[r].session = Unset
                    /\ req[r].status = 0)
    /\ [][\A r \in Requests :
            (req[r].pc = "call" /\ AssemblyFailed(req'[r])) =>
                /\ ~has_wrapped_middleware
                /\ ~has_wrapped_middleware'
                /\ app' = app
                /\ app' = NextApp
                /\ assemblies' = assemblies]_vars
    /\ [][\A r \in Requests :
            (req[r].pc = "call" /\ Routed(req'[r])) =>
                /\ has_wrapped_middleware'
                /\ req'[r].stack = ThreeStageStack]_vars

\* the call for one request failed during assembly; the call for a later
\* request assembled the stack and that request has been served through it
C19_Witness ==
    \E r1, r2 \in Requests :
        /\ AssemblyFailed(req[r1])
        /\ req[r1].exc = InternalException
        /\ Has(req[r2], "assemble")
        /\ req[r2].stack = ThreeStageStack
        /\ Has(req[r2], "handler")
        /\ assemblies = 1

\* ------------------------------------------------------------- termination
\* the three ways a request ends when nothing it calls raises
ExcludedAndHandled(rq) ==
    rq.path \in exclude /\ rq.outcome = "none" /\ Has(rq, "handler")
AuthenticatedAndHandled(rq) ==
    rq.path \notin exclude /\ rq.outcome = "Authenticated" /\ Has(rq, "handler")
RejectedAndAnswered(rq) ==
    /\ rq.path \notin exclude /\ rq.outcome = "Rejected" /\ ~Has(rq, "handler")
    /\ rq.exc = NoException /\ rq.status >= 400

\* the request is at the transport; unless the assembly, the callback or the
\* route handler raised for it, it ended in exactly one of the three ways
Terminal(rq) ==
    /\ AtTransport(rq)
    /\ (Routed(rq) /\ ~FaultDownstream(rq)) =>
          /\ ExcludedAndHandled(rq) \/ AuthenticatedAndHandled(rq)
                \/ RejectedAndAnswered(rq)
          /\ ~(ExcludedAndHandled(rq) /\ AuthenticatedAndHandled(rq))
          /\ ~(ExcludedAndHandled(rq) /\ RejectedAndAnswered(rq))
          /\ ~(AuthenticatedAndHandled(rq) /\ RejectedAndAnswered(rq))
          /\ rq.exc = NoException
          /\ rq.status # 0

\* C20: every request the wrapper is called with reaches the transport, as
\* excluded and handled, authenticated and handled, or rejected and answered
\* with an error response, so none stays in authenticate_request for ever;
\* and no request runs the handler, is translated or is encoded more than
\* once.
C20_Terminates ==
    /\ \A r \in Connections : (req[r].pc = "call") ~> Terminal(req[r])
    /\ [](\A r \in Connections :
            /\ Count(req[r], "handler") <= 1
            /\ Count(req[r], "translate") <= 1
            /\ Count(req[r], "session_encode") <= 1)

\* requests of each of the three kinds of ending have reached the transport
C20_Witness ==
    \E r1, r2 \in Requests :
        /\ Terminal(req[r1]) /\ Terminal(req[r2])
        /\ ExcludedAndHandled(req[r1]) \/ AuthenticatedAndHandled(req[r1])
        /\ RejectedAndAnswered(req[r2])
        /\ Has(req[r2], "retrieve_user")

====
